---- MODULE Spec2Model ----
(***************************************************************************)
(* Model of app/main.py: the in-memory todo store and the mindmap          *)
(* subsystem (label generator, node identity scheme, mindmap store) as a   *)
(* state machine over the module globals and the request handlers.         *)
(*                                                                         *)
(* Text values (prompts, labels, remote strings) are sequences of chunks;  *)
(* a chunk is one character (" ", ".", "?", "!", a letter) or a literal    *)
(* of the source whose first and last characters are neither whitespace    *)
(* nor one of ".?!", so str.strip() and str.rstrip(".?!") act on chunk     *)
(* sequences exactly as they act on the characters.  Node ids are strings. *)
(***************************************************************************)
EXTENDS Integers, Sequences, FiniteSets, TLC

VARIABLES
    todos,       \* _todos: todo id -> record                (main.py:15)
    nextId,      \* _next_id                                 (main.py:16)
    mindmaps,    \* _mindmaps: map id -> stored mindmap      (main.py:19)
    nextMapId,   \* _next_map_id                             (main.py:20)
    env,         \* the process environment the label generator reads
    pc,          \* per client: where its request's handler stands
    call,        \* per client: the locals of its handler while it is suspended
    sent,        \* the response the latest step sent, and to which request
    allocated,   \* history: map ids in the order create_mindmap drew them
    generated,   \* history: what each expansion that generated labels returned
    created,     \* history: the ids create_todo returned, in order
    genIn,       \* label generator under test: its inputs
    genOut       \* label generator under test: its outcome

vars == <<todos, nextId, mindmaps, nextMapId, env, pc, call, sent,
          allocated, generated, created, genIn, genOut>>

mindmapVars == <<mindmaps, nextMapId>>
clientVars == <<pc, call, sent>>
historyVars == <<allocated, generated>>

todoVars == <<todos, nextId, created>>
genVars == <<genIn, genOut>>

----------------------------------------------------------------------------
(* Bounds of the model *)

\* create_mindmap is not started once this many map ids have been drawn
MaxMaps == 2
\* a childless node is expanded only while fewer than this many nodes other
\* than roots have been expanded or are being expanded
MaxExpanded == 1
\* longest JSON array the remote backend answers with
MaxItems == 12
\* create_todo is not started once _next_id exceeds this
MaxTodos == 2
\* where both stores are served side by side: no request that creates a
\* map, expands a childless node or creates a todo is started once this many
\* of them were started
MaxSiteCreated == 4

Clients == {"c1", "c2"}

None == "None"
NoCall == [op |-> "none"]
NoResp == [status |-> 0]
\* no response was sent in the latest step
NoneSent == [client |-> "none", request |-> NoCall, response |-> NoResp]

----------------------------------------------------------------------------
(* Text *)

Whitespace == {" "}
Punct == {".", "?", "!"}

RECURSIVE LStripChars(_, _)
\* str.lstrip: drop leading chunks that are in chars
LStripChars(s, chars) ==
    IF s # <<>> /\ Head(s) \in chars THEN LStripChars(Tail(s), chars) ELSE s

RECURSIVE RStripChars(_, _)
\* str.rstrip(chars): drop trailing chunks that are in chars
RStripChars(s, chars) ==
    IF s # <<>> /\ s[Len(s)] \in chars
    THEN RStripChars(SubSeq(s, 1, Len(s) - 1), chars)
    ELSE s

\* str.strip()
Strip(s) == RStripChars(LStripChars(s, Whitespace), Whitespace)

----------------------------------------------------------------------------
(* Label generator *)

\* the labels of _fallback_expand for depth <= 0, after "What is {base}?"
RootLabels ==
    << <<"Key components">>, <<"Examples">>, <<"Risks & constraints">>,
       <<"Next steps">> >>

\* the labels of _fallback_expand for depth > 0
DeepLabels ==
    << <<"Define">>, <<"Break into steps">>, <<"Tools / resources">>,
       <<"Measure success">>, <<"Common pitfalls">> >>

FallbackExpand_Deep(seed, depth) == DeepLabels

FallbackExpand_Shallow(seed, depth) ==
    << <<"What is", " ">> \o Strip(seed) \o <<"?">> >> \o RootLabels

\* _fallback_expand(seed, depth)
FallbackExpand(seed, depth) ==
    LET stripped == RStripChars(Strip(seed), Punct)
        base == IF stripped = <<>> THEN <<"Idea">> ELSE stripped
    IN  IF depth <= 0
        THEN << <<"What is", " ">> \o base \o <<"?">> >> \o RootLabels
        ELSE DeepLabels

\* the least number of surviving strings for a remote answer to be accepted
MinRemote == 3
\* the most labels kept of a remote answer
MaxRemote == 10

Returned(labels) == [kind |-> "return", labels |-> labels]
Raised == [kind |-> "raise"]
Awaiting == [kind |-> "await"]

RECURSIVE CollectStrings(_, _)
\* the loop over data: the stripped non-empty strings, in order
CollectStrings(data, out) ==
    IF data = <<>> THEN out
    ELSE LET item == Head(data)
             s == IF item.type = "str" THEN Strip(item.s) ELSE <<>>
         IN  CollectStrings(Tail(data),
                 IF item.type = "str" /\ s # <<>> THEN Append(out, s) ELSE out)

Accepted_Two(out) == Len(out) >= 2

\* the negation of "if len(out) < 3"
Accepted(out) == Len(out) >= MinRemote

Keep_All(out) == out

\* out[:10]
Keep(out) == SubSeq(out, 1, IF Len(out) < MaxRemote THEN Len(out) ELSE MaxRemote)

\* _ai_expand_idea up to its await: the outcome, or Awaiting when the call
\* to the backend is issued.  e is the environment.
AiExpandIdeaBegin(e, prompt, depth) ==
    IF ~e.api_key THEN Returned(FallbackExpand(prompt, depth))
    ELSE IF ~e.importable THEN Returned(FallbackExpand(prompt, depth))
    ELSE IF ~e.ctor_ok THEN Raised
    ELSE Awaiting

\* _ai_expand_idea from the backend's answer on
AiExpandIdeaResume(prompt, depth, answer) ==
    IF answer.kind = "raise" THEN Returned(FallbackExpand(prompt, depth))
    ELSE IF answer.json.type = "invalid"
         THEN Returned(FallbackExpand(prompt, depth))
    ELSE IF answer.json.type # "list"
         THEN Returned(FallbackExpand(prompt, depth))
    ELSE LET out == CollectStrings(answer.json.items, <<>>)
         IN  IF ~Accepted(out)
             THEN Returned(FallbackExpand(prompt, depth))
             ELSE Returned(Keep(out))

\* _ai_expand_idea as a whole, the backend answering with answer when asked
AiExpandIdea(e, prompt, depth, answer) ==
    LET begun == AiExpandIdeaBegin(e, prompt, depth)
    IN  IF begun.kind = "await"
        THEN AiExpandIdeaResume(prompt, depth, answer)
        ELSE begun

----------------------------------------------------------------------------
(* Environments and backend answers *)

\* no credential; credential but no client library; the client's constructor
\* raises; the backend is asked
EnvNoKey == [api_key |-> FALSE, importable |-> FALSE, ctor_ok |-> FALSE]
EnvNoLib == [api_key |-> TRUE, importable |-> FALSE, ctor_ok |-> FALSE]
EnvNoClient == [api_key |-> TRUE, importable |-> TRUE, ctor_ok |-> FALSE]
EnvRemote == [api_key |-> TRUE, importable |-> TRUE, ctor_ok |-> TRUE]
Envs == {EnvNoKey, EnvNoLib, EnvNoClient, EnvRemote}

StrItem(s) == [type |-> "str", s |-> s]
OtherItem == [type |-> "other"]

\* the i-th string of a backend answer: padded with whitespace, distinct per i
GoodItem(i) == StrItem(<<" ", "r" \o ToString(i), " ">>)
\* entries the loop drops: a non-string, an empty string, a blank string
BadItems == {OtherItem, StrItem(<<>>), StrItem(<<" ", " ">>)}

AnswerRaise == [kind |-> "raise"]
AnswerInvalid == [kind |-> "content", json |-> [type |-> "invalid"]]
AnswerNotList == [kind |-> "content", json |-> [type |-> "other"]]
AnswerList(items) ==
    [kind |-> "content", json |-> [type |-> "list", items |-> items]]

\* an array of n entries: those at the positions in bad are the entry junk,
\* the others are the good strings
Mixed(n, bad, junk) ==
    AnswerList([i \in 1..n |-> IF i \in bad THEN junk ELSE GoodItem(i)])

\* the positions dropped: none, the first, the odd ones, all but the first two
BadPositions(n) ==
    {{}, {1}, {i \in 1..n : i % 2 = 1}, {i \in 1..n : i > 2}}

\* every answer the generator is tried on
AllAnswers ==
    {AnswerRaise, AnswerInvalid, AnswerNotList}
    \cup UNION {{Mixed(n, bad, junk) : bad \in BadPositions(n), junk \in BadItems} :
                 n \in 0..MaxItems}

----------------------------------------------------------------------------
(* Node identity scheme and node records *)

NewNodeId_Flat(map_id, parent_id, idx) ==
    "m" \o ToString(map_id) \o ":" \o ToString(idx)

\* _new_node_id(map_id, parent_id, idx)
NewNodeId(map_id, parent_id, idx) ==
    IF parent_id = None
    THEN "m" \o ToString(map_id) \o ":root"
    ELSE "m" \o ToString(map_id) \o ":" \o parent_id \o "." \o ToString(idx)

\* MindmapNode(id=..., label=..., parent_id=..., depth=...).model_dump()
MindmapNode(id, label, parent_id, depth) ==
    [id |-> id, label |-> label, parent_id |-> parent_id, depth |-> depth]

ChildNodes_SameDepth(map_id, parent_id, parent_depth, labels) ==
    [i \in 1..Len(labels) |->
        MindmapNode(NewNodeId(map_id, parent_id, i), labels[i], parent_id,
                    parent_depth)]

\* the loop "for i, label in enumerate(labels, start=1)": one child of
\* parent_id per label, a level below parent_depth
ChildNodes(map_id, parent_id, parent_depth, labels) ==
    [i \in 1..Len(labels) |->
        MindmapNode(NewNodeId(map_id, parent_id, i), labels[i], parent_id,
                    parent_depth + 1)]

(* A dict keyed by node id is a sequence of nodes with distinct ids, in
   insertion order. *)
Ids(nodes) == {nodes[i].id : i \in 1..Len(nodes)}

\* nodes[id]
DictGet(nodes, id) == nodes[CHOOSE i \in 1..Len(nodes) : nodes[i].id = id]

DictPutAll_Only(nodes, new) == new

\* "nodes[n.id] = n" for each node n of new, in order: a key the dict holds
\* keeps its place and gets the last node assigned to it; the other keys are
\* appended in the order of their first assignment
DictPutAll(nodes, new) ==
    LET Latest(id) ==
            new[CHOOSE i \in 1..Len(new) :
                    /\ new[i].id = id
                    /\ \A j \in (i + 1)..Len(new) : new[j].id # id]
        kept == [i \in 1..Len(nodes) |->
                    IF nodes[i].id \in Ids(new) THEN Latest(nodes[i].id)
                    ELSE nodes[i]]
        firsts == SelectSeq([i \in 1..Len(new) |-> i],
                      LAMBDA i : /\ new[i].id \notin Ids(nodes)
                                 /\ \A j \in 1..(i - 1) : new[j].id # new[i].id)
    IN  kept \o [k \in 1..Len(firsts) |-> Latest(new[firsts[k]].id)]

ChildrenOf_None(nodes, node_id) == <<>>

\* [n for n in nodes.values() if n.get("parent_id") == node_id]
ChildrenOf(nodes, node_id) ==
    SelectSeq(nodes, LAMBDA n : n.parent_id = node_id)

----------------------------------------------------------------------------
(* Requests *)

\* prompts of POST /mindmap: padded, with trailing punctuation
Prompts == {<<" ", "b", "?", " ">>}

\* the answers of the backend in the state machine: the call raises; an
\* array of a non-string and two strings; an array of a non-string and three
SpecAnswers == {AnswerRaise, Mixed(3, {1}, OtherItem), Mixed(4, {1}, OtherItem)}

\* map ids a request may name: every id drawn so far and the next one
MapIds == 1..nextMapId

\* the nodes of stored map m
NodesOf(m) == {mindmaps[m].nodes[i] : i \in 1..Len(mindmaps[m].nodes)}

\* node ids an expand request for map_id may name: the root and the first
\* child of a node of that map, the root of map 1, an id no map holds
NodeIds(map_id) ==
    {"nowhere", NewNodeId(1, None, 0)}
    \cup (IF map_id \in DOMAIN mindmaps
          THEN {x.id : x \in {y \in NodesOf(map_id) :
                                 \/ y.parent_id = None
                                 \/ y.id = NewNodeId(map_id, y.parent_id, 1)}}
          ELSE {})

\* the nodes other than roots that have children or whose expansion is
\* suspended in label generation, as <<map id, node id>>
Expanded ==
    UNION {{<<m, x.parent_id>> :
               x \in {y \in NodesOf(m) :
                        y.parent_id \notin {None, mindmaps[m].root_id}}} :
           m \in DOMAIN mindmaps}
    \cup {<<call[q].map_id, call[q].node_id>> :
            q \in {c \in Clients : pc[c] = "expand_await"}}

\* the expand requests the clients issue: any, but for a childless node only
\* within MaxExpanded
Issued(map_id, node_id) ==
    IF map_id \notin DOMAIN mindmaps THEN TRUE
    ELSE IF ChildrenOf(mindmaps[map_id].nodes, node_id) # <<>> THEN TRUE
    ELSE IF node_id \notin Ids(mindmaps[map_id].nodes) THEN TRUE
    ELSE IF <<map_id, node_id>> \in Expanded THEN TRUE
    ELSE Cardinality(Expanded) < MaxExpanded

NotFound_Ok(detail) == [status |-> 200, detail |-> detail]

\* HTTPException(status_code=404, detail=...)
NotFound(detail) == [status |-> 404, detail |-> detail]
\* an exception that leaves the handler: the framework answers 500
ServerError == [status |-> 500]
\* a response of the handler
Ok(status, body) == [status |-> status, body |-> body]

\* response r to client p's request
Response(p, request, r) == [client |-> p, request |-> request, response |-> r]

----------------------------------------------------------------------------
(* Initial state *)

InitStores ==
    /\ todos = <<>>
    /\ nextId = 1
    /\ mindmaps = <<>>
    /\ nextMapId = 1
    /\ pc = [p \in Clients |-> "idle"]
    /\ call = [p \in Clients |-> NoCall]
    /\ sent = NoneSent
    /\ allocated = <<>>
    /\ generated = {}
    /\ created = <<>>

Init ==
    /\ InitStores
    /\ env \in Envs
    /\ genIn = NoCall
    /\ genOut = NoResp

----------------------------------------------------------------------------
(* POST /mindmap *)

(* In the handlers a local of the code is bound with \E over a singleton
   set: the value is computed once, where the code assigns it. *)

NextMapIdAfter_Stale(n) == n

\* _next_map_id += 1
NextMapIdAfter(n) == n + 1

\* the stored mindmap: _mindmaps[map_id] = {...}
StoredMap(map_id, root_id, nodes) ==
    [map_id |-> map_id, root_id |-> root_id, nodes |-> DictPutAll(<<>>, nodes)]

\* create_mindmap from the labels on: build the children, store the map,
\* return the MindmapResponse
CreateFinish(p, map_id, root_id, root, labels) ==
    \E nodes \in {<<root>> \o ChildNodes(map_id, root_id, 0, labels)} :
        /\ mindmaps' = (map_id :> StoredMap(map_id, root_id, nodes)) @@ mindmaps
        /\ sent' = Response(p, [op |-> "create", map_id |-> map_id],
                        Ok(201, [map_id |-> map_id, root_id |-> root_id,
                                 nodes |-> nodes]))
        /\ pc' = [pc EXCEPT ![p] = "idle"]
        /\ call' = [call EXCEPT ![p] = NoCall]

\* create_mindmap up to the end, or up to the await in _ai_expand_idea
CreateMindmap(p, prompt) ==
    /\ pc[p] = "idle"
    /\ nextMapId <= MaxMaps
    /\ \E map_id \in {nextMapId} :
       \E root_id \in {NewNodeId(map_id, None, 0)} :
       \E root \in {MindmapNode(root_id, Strip(prompt), None, 0)} :
       \E begun \in {AiExpandIdeaBegin(env, prompt, 0)} :
           /\ nextMapId' = NextMapIdAfter(nextMapId)
           /\ allocated' = Append(allocated, map_id)
           /\ CASE begun.kind = "return" ->
                     CreateFinish(p, map_id, root_id, root, begun.labels)
                [] begun.kind = "raise" ->
                     /\ sent' = Response(p, [op |-> "create", map_id |-> map_id],
                                     ServerError)
                     /\ UNCHANGED <<mindmaps, pc, call>>
                [] begun.kind = "await" ->
                     /\ pc' = [pc EXCEPT ![p] = "create_await"]
                     /\ call' = [call EXCEPT ![p] =
                             [op |-> "create", prompt |-> prompt,
                              map_id |-> map_id, root_id |-> root_id,
                              root |-> root]]
                     /\ sent' = NoneSent
                     /\ UNCHANGED mindmaps
    /\ UNCHANGED <<todoVars, env, generated, genVars>>

\* create_mindmap resumed by the backend's answer
CreateResume(p, answer) ==
    /\ pc[p] = "create_await"
    /\ \E f \in {call[p]} :
       \E got \in {AiExpandIdeaResume(f.prompt, 0, answer)} :
           CreateFinish(p, f.map_id, f.root_id, f.root, got.labels)
    /\ UNCHANGED <<todoVars, nextMapId, env, historyVars, genVars>>

----------------------------------------------------------------------------
(* POST /mindmap/{map_id}/expand *)

\* expand_mindmap_node from the labels on: insert the children into the
\* map's node dict, return them
ExpandFinish(p, map_id, node_id, parent_depth, labels) ==
    \E new_children \in {ChildNodes(map_id, node_id, parent_depth, labels)} :
        /\ mindmaps' = [mindmaps EXCEPT ![map_id].nodes =
                            DictPutAll(@, new_children)]
        /\ sent' = Response(p, [op |-> "expand", map_id |-> map_id,
                                node_id |-> node_id],
                        Ok(200, new_children))
        /\ generated' = generated \cup
                {[map_id |-> map_id, node_id |-> node_id,
                  body |-> new_children]}
        /\ pc' = [pc EXCEPT ![p] = "idle"]
        /\ call' = [call EXCEPT ![p] = NoCall]

\* the handler raises or returns: response r is sent, nothing is written
ExpandAnswer(p, map_id, node_id, r) ==
    /\ sent' = Response(p, [op |-> "expand", map_id |-> map_id,
                            node_id |-> node_id], r)
    /\ UNCHANGED <<mindmaps, pc, call, generated>>

\* expand_mindmap_node up to the end, or up to the await in _ai_expand_idea
ExpandNode(p, map_id, node_id) ==
    /\ pc[p] = "idle"
    /\ IF map_id \notin DOMAIN mindmaps
       THEN ExpandAnswer(p, map_id, node_id, NotFound("Mindmap not found"))
       ELSE
       \E nodes \in {mindmaps[map_id].nodes} :
       IF node_id \notin Ids(nodes)
       THEN ExpandAnswer(p, map_id, node_id, NotFound("Node not found"))
       ELSE
       \E parent \in {DictGet(nodes, node_id)} :
       \E parent_depth \in {parent.depth} :
       \E existing_children \in {ChildrenOf(nodes, node_id)} :
       IF existing_children # <<>>
       THEN ExpandAnswer(p, map_id, node_id, Ok(200, existing_children))
       ELSE
       \E begun \in {AiExpandIdeaBegin(env, parent.label, parent_depth)} :
           CASE begun.kind = "return" ->
                ExpandFinish(p, map_id, node_id, parent_depth, begun.labels)
           [] begun.kind = "raise" ->
                ExpandAnswer(p, map_id, node_id, ServerError)
           [] begun.kind = "await" ->
                /\ pc' = [pc EXCEPT ![p] = "expand_await"]
                /\ call' = [call EXCEPT ![p] =
                        [op |-> "expand", map_id |-> map_id,
                         node_id |-> node_id, label |-> parent.label,
                         parent_depth |-> parent_depth]]
                /\ sent' = NoneSent
                /\ UNCHANGED <<mindmaps, generated>>
    /\ UNCHANGED <<todoVars, nextMapId, env, allocated, genVars>>

\* expand_mindmap_node resumed by the backend's answer
ExpandResume(p, answer) ==
    /\ pc[p] = "expand_await"
    /\ \E f \in {call[p]} :
       \E got \in {AiExpandIdeaResume(f.label, f.parent_depth, answer)} :
           ExpandFinish(p, f.map_id, f.node_id, f.parent_depth, got.labels)
    /\ UNCHANGED <<todoVars, nextMapId, env, allocated, genVars>>

----------------------------------------------------------------------------
(* The service *)

\* the steps of the handlers that need no answer of the backend
HandlerStep ==
    \E p \in Clients :
        \/ \E prompt \in Prompts : CreateMindmap(p, prompt)
        \/ \E map_id \in MapIds : \E node_id \in NodeIds(map_id) :
               Issued(map_id, node_id) /\ ExpandNode(p, map_id, node_id)

\* the backend answers a suspended call
BackendStep ==
    \E p \in Clients, answer \in SpecAnswers :
        \/ CreateResume(p, answer)
        \/ ExpandResume(p, answer)

Next == HandlerStep \/ BackendStep

Spec == Init /\ [][Next]_vars

\* the event loop runs every handler step that is ready; nothing in the
\* handlers bounds the wait for the backend's answer
FairSpec == Spec /\ WF_vars(HandlerStep)

----------------------------------------------------------------------------
(* The label generator alone *)

\* seeds: empty, blank, punctuation only, padded with trailing punctuation,
\* a blank before the trailing punctuation, the example of the description
Seeds ==
    {<<>>, <<" ">>, <<"?">>, <<" ", "b", "?", " ">>, <<"a", " ", ".">>,
     <<"Learn Rust", "?">>}

Depths == {-1, 0, 1, 2}

InitGen ==
    /\ InitStores
    /\ env = EnvNoKey
    /\ genIn \in [env : Envs, seed : Seeds, depth : Depths, answer : AllAnswers]
    /\ genOut = NoResp

\* one call of _ai_expand_idea
Generate ==
    /\ genOut = NoResp
    /\ genOut' = AiExpandIdea(genIn.env, genIn.seed, genIn.depth, genIn.answer)
    /\ UNCHANGED <<todoVars, mindmapVars, env, clientVars, historyVars, genIn>>

NextGen == Generate

SpecGen == InitGen /\ [][NextGen]_vars

----------------------------------------------------------------------------
(* C5 *)

\* the entries of a backend array that are strings with something left
\* after trimming
Surviving(items) ==
    SelectSeq(items, LAMBDA it : it.type = "str" /\ Strip(it.s) # <<>>)

\* the generator was asked, and the backend's answer qualifies
AnswerAccepted ==
    /\ genIn.env = EnvRemote
    /\ genIn.answer.kind = "content"
    /\ genIn.answer.json.type = "list"
    /\ Len(Surviving(genIn.answer.json.items)) >= 3

\* C5: whatever the seed, the depth and the backend's answer, the generator
\* returns 3 to 10 labels, each non-empty and trimmed; an accepted answer is
\* returned as its trimmed non-empty strings, in order, cut to the first 10.
\* (A client whose constructor raises never asks the backend: that is C3.)
C5_LabelsWellFormed ==
    (genOut # NoResp /\ genIn.env # EnvNoClient) =>
        /\ genOut.kind = "return"
        /\ Len(genOut.labels) \in 3..10
        /\ \A i \in 1..Len(genOut.labels) :
              /\ genOut.labels[i] # <<>>
              /\ Strip(genOut.labels[i]) = genOut.labels[i]
        /\ AnswerAccepted =>
              LET kept == Surviving(genIn.answer.json.items)
                  n == IF Len(kept) > 10 THEN 10 ELSE Len(kept)
              IN  genOut.labels = [i \in 1..n |-> Strip(kept[i].s)]

\* an accepted answer of more than 10 strings, with junk between, was cut
C5_Witness ==
    /\ genOut # NoResp
    /\ AnswerAccepted
    /\ Len(Surviving(genIn.answer.json.items)) > 10
    /\ Len(genIn.answer.json.items) > Len(Surviving(genIn.answer.json.items))
    /\ Len(genOut.labels) = 10

----------------------------------------------------------------------------
(* Vocabulary of the claims about the mindmap store *)

Range(seq) == {seq[i] : i \in 1..Len(seq)}

\* the nodes of a node dict whose parent is node n, in the dict's order
Kids(nodes, n) == SelectSeq(nodes, LAMBDA x : x.parent_id = n)

\* the latest step answered an expand request
ExpandAnswered == sent.request.op = "expand"

\* the calls that generated labels for the same node as record g
SameTarget(g) ==
    {h \in generated : h.map_id = g.map_id /\ h.node_id = g.node_id}

----------------------------------------------------------------------------
(* C1 *)

\* C1: an expand request for a node that has children is answered in one
\* step with exactly those children, and the store, the counter and the
\* record of generations stay as they were; no call enters label generation
\* for a node that has children; and an expansion that inserts under a node
\* that had no children returns exactly the children the node then has, so
\* the same request repeated right after returns the same children.
C1_SequentialIdempotence ==
    [][/\ \A p \in Clients :
            (pc[p] = "idle" /\ pc'[p] = "expand_await") =>
                Kids(mindmaps[call'[p].map_id].nodes, call'[p].node_id) = <<>>
       /\ (sent'.request.op = "expand"
           /\ sent'.request.map_id \in DOMAIN mindmaps) =>
            LET p == sent'.client
                m == sent'.request.map_id
                n == sent'.request.node_id
                before == Kids(mindmaps[m].nodes, n)
            IN  /\ (pc[p] = "idle" /\ before # <<>>) =>
                        /\ sent'.response = Ok(200, before)
                        /\ UNCHANGED <<mindmaps, nextMapId, generated>>
                /\ (before = <<>> /\ sent'.response.status = 200) =>
                        /\ sent'.response.body = Kids(mindmaps'[m].nodes, n)
                        /\ sent'.response.body # <<>>
      ]_vars

\* a node other than a root, expanded by two racing calls, was expanded
\* again: the answer is the children it has, which no generation returned
C1_Witness ==
    /\ ExpandAnswered
    /\ sent.response.status = 200
    /\ \E g \in generated :
          /\ g.map_id = sent.request.map_id
          /\ g.node_id = sent.request.node_id
          /\ \A h \in SameTarget(g) : h.body # sent.response.body
    /\ sent.response.body =
          Kids(mindmaps[sent.request.map_id].nodes, sent.request.node_id)

----------------------------------------------------------------------------
(* C2 *)

\* C2: the expand calls that generated labels for the same node (each passed
\* the check for existing children before any of them inserted) all returned
\* the same child set, and once none of them is suspended the node has
\* exactly that child set.
C2_ConcurrentIdempotence ==
    \A g \in generated :
        /\ \A h \in SameTarget(g) : Range(h.body) = Range(g.body)
        /\ (\A q \in Clients :
                pc[q] = "expand_await" =>
                    <<call[q].map_id, call[q].node_id>> # <<g.map_id, g.node_id>>)
            => Range(Kids(mindmaps[g.map_id].nodes, g.node_id)) = Range(g.body)

----------------------------------------------------------------------------
(* C3 *)

\* C3: no failure of the remote tier leaves the label generator: no request
\* is answered with a server error.
C3_NoFailureEscapes == sent.response.status # 500

----------------------------------------------------------------------------
(* C4 *)

\* C4: every create and expand request that is suspended in label generation
\* completes, whether or not the backend ever answers.
C4_RequestsComplete ==
    \A p \in Clients : (pc[p] # "idle") ~> (pc[p] = "idle")

----------------------------------------------------------------------------
(* C6 *)

RECURSIVE Ancestor(_, _, _)
\* the id reached from node id by following parent_id k times; "lost" when
\* the walk leaves the dict
Ancestor(nodes, id, k) ==
    IF k = 0 THEN id
    ELSE IF id \notin Ids(nodes) THEN "lost"
    ELSE Ancestor(nodes, DictGet(nodes, id).parent_id, k - 1)

\* the stored map m is a tree rooted at its root_id
IsTree(m) ==
    LET nodes == mindmaps[m].nodes
        root_id == mindmaps[m].root_id
    IN  /\ Cardinality(Ids(nodes)) = Len(nodes)
        /\ {x \in Range(nodes) : x.parent_id = None}
               = {x \in Range(nodes) : x.id = root_id}
        /\ Cardinality({x \in Range(nodes) : x.parent_id = None}) = 1
        /\ \A x \in Range(nodes) :
              /\ x.depth >= 0
              /\ x.parent_id = None => x.depth = 0
              /\ x.parent_id # None =>
                    /\ x.parent_id \in Ids(nodes)
                    /\ x.depth = DictGet(nodes, x.parent_id).depth + 1
              /\ Ancestor(nodes, x.id, x.depth) = root_id

\* C6: every stored map is a tree: one node without parent, the root, at
\* depth 0 under the map's root_id; every other node's parent is in the map,
\* one level above it; parent links lead from a node to the root in exactly
\* depth steps.
C6_TreeInvariant == \A m \in DOMAIN mindmaps : IsTree(m)

\* a map holds nodes at depth 2 that two racing expansions inserted
C6_Witness ==
    \E g \in generated :
        /\ Cardinality(SameTarget(g)) >= 2
        /\ \E x \in Range(mindmaps[g.map_id].nodes) :
              x.depth = 2 /\ x.parent_id = g.node_id

----------------------------------------------------------------------------
(* C7 *)

\* the step completes an expansion that was suspended in label generation
ExpansionResumed ==
    /\ sent'.request.op = "expand"
    /\ sent'.client \in Clients
    /\ pc[sent'.client] = "expand_await"

\* C7: a node stored under an id stays stored under it, unchanged, through
\* every step; and an expansion inserts only under a node that has no
\* children when it inserts.
C7_IdsStable ==
    [][/\ \A m \in DOMAIN mindmaps :
            /\ m \in DOMAIN mindmaps'
            /\ \A x \in Range(mindmaps[m].nodes) :
                  x \in Range(mindmaps'[m].nodes)
       /\ ExpansionResumed =>
            Kids(mindmaps[sent'.request.map_id].nodes,
                 sent'.request.node_id) = <<>>
      ]_vars

----------------------------------------------------------------------------
(* C8 *)

\* C8: once a node has children, the ids of its children are the same after
\* every step.
C8_ChildrenFixed ==
    [][\A m \in DOMAIN mindmaps :
          \A x \in Range(mindmaps[m].nodes) :
              Kids(mindmaps[m].nodes, x.id) # <<>> =>
                  /\ m \in DOMAIN mindmaps'
                  /\ Ids(Kids(mindmaps'[m].nodes, x.id))
                         = Ids(Kids(mindmaps[m].nodes, x.id))
      ]_vars

----------------------------------------------------------------------------
(* C9 *)

\* the create calls suspended in label generation
CreatesSuspended == {q \in Clients : pc[q] = "create_await"}

\* the step starts or completes a create call
CreateStep ==
    \/ nextMapId' # nextMapId
    \/ \E q \in CreatesSuspended : pc'[q] = "idle"

\* C9: each create call draws a map id greater than every id drawn before
\* it; the calls suspended in label generation hold ids that differ from one
\* another and from those of the stored maps; and no step of a create call
\* changes or removes a map that is stored.
C9_MapIdsUnique ==
    /\ [](/\ \A i, j \in 1..Len(allocated) :
                i < j => allocated[i] < allocated[j]
          /\ \A q \in CreatesSuspended :
                /\ call[q].map_id \notin DOMAIN mindmaps
                /\ \A r \in CreatesSuspended \ {q} :
                      call[r].map_id # call[q].map_id)
    /\ [][CreateStep =>
            \A m \in DOMAIN mindmaps :
                m \in DOMAIN mindmaps' /\ mindmaps'[m] = mindmaps[m]]_vars

\* a create call that started later has stored its map while an earlier one
\* is still suspended, and each map is stored under the id its call drew
C9_Witness ==
    /\ \E q \in CreatesSuspended :
          \E m \in DOMAIN mindmaps : m > call[q].map_id
    /\ \A m \in DOMAIN mindmaps : mindmaps[m].map_id = m

----------------------------------------------------------------------------
(* C10 *)

\* the stored map m holds its root and the root's first generation
HasFirstGeneration(m) ==
    LET nodes == mindmaps[m].nodes
        root_id == mindmaps[m].root_id
        first == Kids(nodes, root_id)
    IN  /\ root_id \in Ids(nodes)
        /\ Len(first) >= 3
        /\ \A i \in 1..Len(first) : first[i].depth = 1

\* C10: every stored map holds its root and at least 3 children of the root
\* at depth 1; and an expand request that names the map id of a create call
\* still suspended in label generation is answered "Mindmap not found".
C10_CreatedAtomically ==
    /\ [](\A m \in DOMAIN mindmaps : HasFirstGeneration(m))
    /\ [][(/\ sent'.request.op = "expand"
           /\ \E q \in CreatesSuspended :
                 call[q].map_id = sent'.request.map_id)
          => sent'.response = NotFound("Mindmap not found")]_vars

\* an expand request for the root of a map whose create call is suspended
\* was answered "Mindmap not found", while another map is stored
C10_Witness ==
    /\ ExpandAnswered
    /\ \E q \in CreatesSuspended :
          /\ call[q].map_id = sent.request.map_id
          /\ call[q].root_id = sent.request.node_id
    /\ sent.response = NotFound("Mindmap not found")
    /\ DOMAIN mindmaps # {}

----------------------------------------------------------------------------
(* The todo store *)

\* titles and done flags of the todo requests
Titles == {"a", "b"}
Flags == {TRUE, FALSE}

\* todo ids a request may name: every id assigned so far and the next one
TodoIds == 1..nextId

\* Todo(id=..., title=..., done=...).model_dump()
Todo(id, title, done) == [id |-> id, title |-> title, done |-> done]

TodoNotFound_NoContent == [status |-> 204]

\* HTTPException(status_code=404, detail="Not found")
TodoNotFound == [status |-> 404, detail |-> "Not found"]

\* the keys of _todos in the order of the dict
RECURSIVE Ascending(_)
Ascending(S) ==
    IF S = {} THEN <<>>
    ELSE LET least == CHOOSE x \in S : \A y \in S : x <= y
         IN  <<least>> \o Ascending(S \ {least})

\* [Todo(**t) for t in _todos.values()]: keys enter the dict in rising order
TodoValues(store) ==
    LET keys == Ascending(DOMAIN store)
    IN  [i \in 1..Len(keys) |-> store[keys[i]]]

\* _todos[key] = record
TodoPut(store, key, record) ==
    [k \in DOMAIN store \cup {key} |-> IF k = key THEN record ELSE store[k]]

TodoDel_Keep(store, key) == store

\* del _todos[key]
TodoDel(store, key) == [k \in DOMAIN store \ {key} |-> store[k]]

\* a todo handler that runs from start to end answers r to request
TodoAnswer(p, request, r) ==
    /\ pc[p] = "idle"
    /\ sent' = Response(p, request, r)
    /\ UNCHANGED <<mindmapVars, env, pc, call, historyVars, genVars>>

\* GET /todos
ListTodos(p) ==
    /\ TodoAnswer(p, [op |-> "list_todos"], Ok(200, TodoValues(todos)))
    /\ UNCHANGED todoVars

NextIdAfter_Stale(n) == n

\* _next_id += 1
NextIdAfter(n) == n + 1

\* POST /todos, run without interruption
CreateTodo(p, title, done) ==
    /\ nextId <= MaxTodos
    /\ \E todo \in {Todo(nextId, title, done)} :
          /\ todos' = TodoPut(todos, nextId, todo)
          /\ nextId' = NextIdAfter(nextId)
          /\ created' = Append(created, todo.id)
          /\ TodoAnswer(p, [op |-> "create_todo", title |-> title,
                            done |-> done], Ok(201, todo))

\* GET /todos/{todo_id}
GetTodo(p, todo_id) ==
    /\ TodoAnswer(p, [op |-> "get_todo", todo_id |-> todo_id],
                  IF todo_id \notin DOMAIN todos THEN TodoNotFound
                  ELSE Ok(200, todos[todo_id]))
    /\ UNCHANGED todoVars

UpdatedTodo_Retitled(record, done) == [record EXCEPT !.title = "patched"]

\* _todos[todo_id]["done"] = payload.done
UpdatedTodo(record, done) == [record EXCEPT !.done = done]

\* PATCH /todos/{todo_id}
UpdateTodo(p, todo_id, done) ==
    /\ IF todo_id \notin DOMAIN todos
       THEN /\ TodoAnswer(p, [op |-> "update_todo", todo_id |-> todo_id,
                              done |-> done], TodoNotFound)
            /\ UNCHANGED todos
       ELSE \E record \in {UpdatedTodo(todos[todo_id], done)} :
            /\ todos' = TodoPut(todos, todo_id, record)
            /\ TodoAnswer(p, [op |-> "update_todo", todo_id |-> todo_id,
                              done |-> done], Ok(200, record))
    /\ UNCHANGED <<nextId, created>>

\* DELETE /todos/{todo_id}
DeleteTodo(p, todo_id) ==
    /\ IF todo_id \notin DOMAIN todos
       THEN /\ TodoAnswer(p, [op |-> "delete_todo", todo_id |-> todo_id],
                          TodoNotFound)
            /\ UNCHANGED todos
       ELSE /\ todos' = TodoDel(todos, todo_id)
            /\ TodoAnswer(p, [op |-> "delete_todo", todo_id |-> todo_id],
                          [status |-> 204])
    /\ UNCHANGED <<nextId, created>>

\* the todo handlers, each run from start to end
TodoStep ==
    \E p \in Clients :
        \/ ListTodos(p)
        \/ \E title \in Titles, done \in Flags : CreateTodo(p, title, done)
        \/ \E todo_id \in TodoIds : GetTodo(p, todo_id)
        \/ \E todo_id \in TodoIds, done \in Flags : UpdateTodo(p, todo_id, done)
        \/ \E todo_id \in TodoIds : DeleteTodo(p, todo_id)

\* the map POST /mindmap stores first when no credential is configured
FirstMap(prompt) ==
    LET root_id == NewNodeId(1, None, 0)
        root == MindmapNode(root_id, Strip(prompt), None, 0)
    IN  StoredMap(1, root_id,
            <<root>> \o ChildNodes(1, root_id, 0, FallbackExpand(prompt, 0)))

\* the todo store as it is at import, beside a mindmap store that holds the
\* first map
InitTodo ==
    /\ todos = <<>>
    /\ nextId = 1
    /\ created = <<>>
    /\ \E prompt \in Prompts : mindmaps = (1 :> FirstMap(prompt))
    /\ nextMapId = 2
    /\ allocated = <<1>>
    /\ generated = {}
    /\ pc = [p \in Clients |-> "idle"]
    /\ call = [p \in Clients |-> NoCall]
    /\ sent = NoneSent
    /\ env = EnvNoKey
    /\ genIn = NoCall
    /\ genOut = NoResp

NextTodo == TodoStep

\* todo requests served one after the other
SpecTodo == InitTodo /\ [][NextTodo]_vars

----------------------------------------------------------------------------
(* Vocabulary of the claims about the todo store *)

\* the step served a request of kind op
TodoServed(op) == sent'.request.op = op

\* the step served a get, patch or delete of todo t
TodoNamed(t) ==
    /\ sent'.request.op \in {"get_todo", "update_todo", "delete_todo"}
    /\ sent'.request.todo_id = t

\* the step served a patch or a delete of todo t
TodoTouched(t) ==
    /\ sent'.request.op \in {"update_todo", "delete_todo"}
    /\ sent'.request.todo_id = t

\* the ids that were assigned and are no longer in the store
TodosDeleted == {created[i] : i \in 1..Len(created)} \ DOMAIN todos

----------------------------------------------------------------------------
(* C14 *)

\* C14: the ids create returned are strictly increasing in the order of the
\* creates, whatever was deleted in between; every id returned and every key
\* of the store is smaller than the next id to assign.
C14_TodoIdsMonotonic ==
    /\ \A i, j \in 1..Len(created) : i < j => created[i] < created[j]
    /\ \A i \in 1..Len(created) : created[i] < nextId
    /\ \A k \in DOMAIN todos : k < nextId

\* a create returned a new highest id after the todo with the highest id so
\* far had been deleted
C14_Witness ==
    /\ sent.request.op = "create_todo"
    /\ sent.response.status = 201
    /\ Len(created) >= 2
    /\ created[Len(created)] = sent.response.body.id
    /\ created[Len(created) - 1] \notin DOMAIN todos
    /\ sent.response.body.id > created[Len(created) - 1]

----------------------------------------------------------------------------
(* C15 *)

\* C15: a create stores what it returns, under the id it returns, with the
\* title and flag of the request; a get returns the stored record, whose id
\* is its key; a patch sets the flag it was given; a stored todo stays as it
\* is through every step that is not a patch or delete of it; a delete
\* removes the todo; and a todo that was deleted is never stored again, and
\* every get, patch and delete of it is answered NotFound.
C15_TodoLifecycle ==
    [][/\ (TodoServed("create_todo") /\ sent'.response.status = 201) =>
            LET todo == sent'.response.body
            IN  /\ todo.title = sent'.request.title
                /\ todo.done = sent'.request.done
                /\ todo.id \notin DOMAIN todos
                /\ todo.id \in DOMAIN todos'
                /\ todos'[todo.id] = todo
       /\ \A t \in DOMAIN todos :
            /\ (TodoServed("get_todo") /\ sent'.request.todo_id = t) =>
                    /\ sent'.response = Ok(200, todos[t])
                    /\ todos[t].id = t
            /\ (TodoServed("update_todo") /\ sent'.request.todo_id = t) =>
                    /\ t \in DOMAIN todos'
                    /\ todos'[t].done = sent'.request.done
                    /\ sent'.response = Ok(200, todos'[t])
            /\ (TodoServed("delete_todo") /\ sent'.request.todo_id = t) =>
                    /\ t \notin DOMAIN todos'
                    /\ sent'.response.status = 204
            /\ ~TodoTouched(t) => (t \in DOMAIN todos' /\ todos'[t] = todos[t])
       /\ \A t \in TodosDeleted :
            /\ t \notin DOMAIN todos'
            /\ TodoNamed(t) => sent'.response.status = 404
      ]_vars

\* a todo was created, patched to the other flag, read, deleted, and after
\* another create a get of it is answered NotFound
C15_Witness ==
    /\ sent.request.op = "get_todo"
    /\ sent.request.todo_id \in TodosDeleted
    /\ sent.response.status = 404
    /\ \E k \in DOMAIN todos : k > sent.request.todo_id

----------------------------------------------------------------------------
(* C16 *)

\* C16: a get, patch or delete of an id that is not in the store is answered
\* NotFound, and the store and the id counter stay as they were.
C16_MissingTodoNotFound ==
    [][\A t \in TodoIds \ DOMAIN todos :
          TodoNamed(t) =>
              /\ sent'.response.status = 404
              /\ UNCHANGED <<todos, nextId>>
      ]_vars

\* a patch of an id that was never assigned was answered NotFound while a
\* deleted id and a stored todo exist
C16_Witness ==
    /\ sent.request.op = "update_todo"
    /\ sent.request.todo_id = nextId
    /\ sent.response.status = 404
    /\ TodosDeleted # {}
    /\ DOMAIN todos # {}

----------------------------------------------------------------------------
(* C18 *)

\* C18: a patch that succeeds changes the done flag of its todo and nothing
\* else: the todo's id and title, every other todo, the keys of the store,
\* the id counter, the mindmap store (which holds a map) and its counter
\* are as before.
C18_PatchFrame ==
    [][(TodoServed("update_todo") /\ sent'.response.status = 200) =>
          LET t == sent'.request.todo_id
          IN  /\ DOMAIN todos' = DOMAIN todos
              /\ todos'[t].id = todos[t].id
              /\ todos'[t].title = todos[t].title
              /\ todos'[t].done = sent'.request.done
              /\ \A k \in DOMAIN todos \ {t} : todos'[k] = todos[k]
              /\ UNCHANGED <<nextId, mindmaps, nextMapId>>
      ]_vars

\* a patch set the flag of one of two stored todos, the other one holding
\* the opposite flag
C18_Witness ==
    /\ DOMAIN mindmaps # {}
    /\ sent.request.op = "update_todo"
    /\ sent.response.status = 200
    /\ Cardinality(DOMAIN todos) >= 2
    /\ \E k \in DOMAIN todos \ {sent.request.todo_id} :
          todos[k].done # sent.request.done

----------------------------------------------------------------------------
(* create_todo on the worker threads *)

(* create_todo is a plain function: the framework runs each request for it
   on a worker thread, and a thread can be switched out between two
   statements.  One step per statement of the handler. *)

\* todo = Todo(id=_next_id, title=payload.title, done=payload.done)
CreateTodoBuild(p, title, done) ==
    /\ pc[p] = "idle"
    /\ nextId <= MaxTodos
    /\ pc' = [pc EXCEPT ![p] = "todo_built"]
    /\ call' = [call EXCEPT ![p] =
                   [op |-> "create_todo", title |-> title, done |-> done,
                    todo |-> Todo(nextId, title, done)]]
    /\ sent' = NoneSent
    /\ UNCHANGED <<todoVars, mindmapVars, env, historyVars, genVars>>

\* _todos[_next_id] = todo.model_dump()
CreateTodoStore(p) ==
    /\ pc[p] = "todo_built"
    /\ todos' = TodoPut(todos, nextId, call[p].todo)
    /\ pc' = [pc EXCEPT ![p] = "todo_stored"]
    /\ sent' = NoneSent
    /\ UNCHANGED <<nextId, created, call, mindmapVars, env, historyVars,
                   genVars>>

\* _next_id += 1; return todo
CreateTodoReturn(p) ==
    /\ pc[p] = "todo_stored"
    /\ nextId' = NextIdAfter(nextId)
    /\ created' = Append(created, call[p].todo.id)
    /\ sent' = Response(p, [op |-> "create_todo", title |-> call[p].title,
                            done |-> call[p].done], Ok(201, call[p].todo))
    /\ pc' = [pc EXCEPT ![p] = "idle"]
    /\ call' = [call EXCEPT ![p] = NoCall]
    /\ UNCHANGED <<todos, mindmapVars, env, historyVars, genVars>>

\* a worker thread runs the next statement of its create_todo
ThreadStep ==
    \E p \in Clients :
        \/ \E title \in Titles, done \in Flags : CreateTodoBuild(p, title, done)
        \/ CreateTodoStore(p)
        \/ CreateTodoReturn(p)

NextThreads == ThreadStep

\* create requests served on worker threads
SpecThreads == InitTodo /\ [][NextThreads]_vars

----------------------------------------------------------------------------
(* C17 *)

\* C17: the ids the create requests returned are pairwise different, and
\* once no create is running each of them is the key of a stored todo that
\* carries that id.
C17_TodoIdsUniqueConcurrently ==
    /\ \A i, j \in 1..Len(created) : i # j => created[i] # created[j]
    /\ (\A p \in Clients : pc[p] = "idle") =>
            \A i \in 1..Len(created) :
                /\ created[i] \in DOMAIN todos
                /\ todos[created[i]].id = created[i]

----------------------------------------------------------------------------
(* C11 *)

\* the expand request the step answered names a map that is not stored, or
\* a node that the map it names does not hold
UnknownTarget ==
    /\ sent'.request.op = "expand"
    /\ \/ sent'.request.map_id \notin DOMAIN mindmaps
       \/ sent'.request.node_id
              \notin Ids(mindmaps[sent'.request.map_id].nodes)

\* C11: an expand request that names a map not in the store, or a node the
\* named map does not hold, is answered 404 in one step; the maps, the
\* map-id counter and the record of generations stay as they were and no
\* call is suspended; a call enters label generation only for a node of a
\* stored map.
C11_UnknownTargetNotFound ==
    [][/\ UnknownTarget =>
            /\ sent'.response.status = 404
            /\ sent'.response.detail =
                  IF sent'.request.map_id \notin DOMAIN mindmaps
                  THEN "Mindmap not found" ELSE "Node not found"
            /\ UNCHANGED <<mindmaps, nextMapId, generated, pc, call>>
       /\ \A p \in Clients :
            (pc[p] = "idle" /\ pc'[p] = "expand_await") =>
                /\ call'[p].map_id \in DOMAIN mindmaps
                /\ call'[p].node_id \in Ids(mindmaps[call'[p].map_id].nodes)
      ]_vars

\* an expand request for map 2 that names the root of map 1 was answered
\* "Node not found", both maps being stored
C11_Witness ==
    /\ ExpandAnswered
    /\ {1, 2} \subseteq DOMAIN mindmaps
    /\ sent.request.map_id = 2
    /\ sent.request.node_id = mindmaps[1].root_id
    /\ sent.response.status = 404
    /\ sent.response.detail = "Node not found"

----------------------------------------------------------------------------
(* C12 *)

\* the labels of the nodes after the first, in order
ChildLabels(nodes) == [i \in 1..(Len(nodes) - 1) |-> nodes[i + 1].label]

\* C12: a create that completes for map id k returns and stores, in the
\* same order, the root "m{k}:root" (depth 0, no parent, label the trimmed
\* prompt) followed by one node per generated label, the i-th with id
\* "m{k}:m{k}:root.{i}", depth 1 and the root as parent; without a
\* credential these are the 5 fallback labels of the prompt at depth 0.
C12_CreateShape ==
    [][(sent'.request.op = "create" /\ sent'.response.status = 201) =>
          LET k == sent'.request.map_id
              body == sent'.response.body
              nodes == body.nodes
              rid == "m" \o ToString(k) \o ":root"
          IN  /\ k \in Range(allocated')
              /\ body.map_id = k
              /\ body.root_id = rid
              /\ k \in DOMAIN mindmaps'
              /\ mindmaps'[k] = [map_id |-> k, root_id |-> rid, nodes |-> nodes]
              /\ \E prompt \in Prompts :
                    /\ nodes[1] = [id |-> rid, label |-> Strip(prompt),
                                   parent_id |-> None, depth |-> 0]
                    /\ ChildLabels(nodes) \in
                          {FallbackExpand(prompt, 0)} \cup
                          {AiExpandIdeaResume(prompt, 0, a).labels :
                              a \in SpecAnswers}
                    /\ env = EnvNoKey =>
                          /\ Len(nodes) = 1 + 5
                          /\ ChildLabels(nodes) = FallbackExpand(prompt, 0)
              /\ \A i \in 1..(Len(nodes) - 1) :
                    /\ nodes[i + 1].id =
                          "m" \o ToString(k) \o ":m" \o ToString(k)
                              \o ":root." \o ToString(i)
                    /\ nodes[i + 1].depth = 1
                    /\ nodes[i + 1].parent_id = rid
      ]_vars

\* without a credential, the create of map 2 returned "m2:root" and 5
\* children, the first "m2:m2:root.1"
C12_Witness ==
    /\ env = EnvNoKey
    /\ sent.request.op = "create"
    /\ sent.response.status = 201
    /\ sent.response.body.map_id = 2
    /\ sent.response.body.root_id = "m2:root"
    /\ Len(sent.response.body.nodes) = 6
    /\ sent.response.body.nodes[2].id = "m2:m2:root.1"

----------------------------------------------------------------------------
(* C13 *)

\* the seed trimmed, its trailing ".", "?", "!" removed, "Idea" if nothing
\* is left: written out for each seed
ExpectedBase(seed) ==
    CASE seed = <<>> -> <<"Idea">>
      [] seed = <<" ">> -> <<"Idea">>
      [] seed = <<"?">> -> <<"Idea">>
      [] seed = <<" ", "b", "?", " ">> -> <<"b">>
      [] seed = <<"a", " ", ".">> -> <<"a", " ">>
      [] seed = <<"Learn Rust", "?">> -> <<"Learn Rust">>

\* C13: without a credential the generator returns, for depth <= 0, "What is
\* {base}?" followed by the four fixed labels, and for depth > 0 the fixed
\* list of five, whatever the seed.
C13_FallbackTable ==
    (genOut # NoResp /\ genIn.env = EnvNoKey) =>
        /\ genOut.kind = "return"
        /\ genOut.labels =
              IF genIn.depth <= 0
              THEN << <<"What is", " ">> \o ExpectedBase(genIn.seed) \o <<"?">>,
                      <<"Key components">>, <<"Examples">>,
                      <<"Risks & constraints">>, <<"Next steps">> >>
              ELSE << <<"Define">>, <<"Break into steps">>,
                      <<"Tools / resources">>, <<"Measure success">>,
                      <<"Common pitfalls">> >>

\* a blank seed at a negative depth gave "What is Idea?" first
C13_Witness ==
    /\ genOut # NoResp
    /\ genIn.env = EnvNoKey
    /\ genIn.seed = <<" ">>
    /\ genIn.depth = -1
    /\ genOut.labels[1] = <<"What is", " ", "Idea", "?">>
    /\ Len(genOut.labels) = 5

----------------------------------------------------------------------------
(* C19 *)

\* the environments in which every label comes from _fallback_expand
FallbackOnly == env \in {EnvNoKey, EnvNoLib}

\* C19: the root of every stored map has children; an expand request for a
\* root is answered with those children and nothing is written or generated;
\* every label generation an expand starts is for a node at depth >= 1; and
\* in fallback-only mode every node at depth >= 2 carries a label of the
\* fixed depth > 0 list, and the labels of the depth <= 0 list are carried
\* by nodes at depth 1 only.
C19_RootNeverLeaf ==
    /\ [](\A m \in DOMAIN mindmaps :
            /\ Kids(mindmaps[m].nodes, mindmaps[m].root_id) # <<>>
            /\ FallbackOnly =>
                 \A x \in Range(mindmaps[m].nodes) :
                    /\ x.depth >= 2 =>
                          x.label \in {<<"Define">>, <<"Break into steps">>,
                                       <<"Tools / resources">>,
                                       <<"Measure success">>,
                                       <<"Common pitfalls">>}
                    /\ (\E prompt \in Prompts :
                           x.label \in Range(FallbackExpand(prompt, 0)))
                         => x.depth = 1)
    /\ [][/\ \A m \in DOMAIN mindmaps :
               (sent'.request.op = "expand" /\ sent'.request.map_id = m
                /\ sent'.request.node_id = mindmaps[m].root_id) =>
                    /\ sent'.response =
                          Ok(200, Kids(mindmaps[m].nodes, mindmaps[m].root_id))
                    /\ UNCHANGED <<mindmaps, generated, pc, call>>
          /\ \A p \in Clients :
               (pc[p] = "idle" /\ pc'[p] = "expand_await") =>
                    call'[p].parent_depth >= 1
          /\ \A g \in generated' \ generated :
               DictGet(mindmaps[g.map_id].nodes, g.node_id).depth >= 1
         ]_vars

\* in fallback-only mode a map holds nodes at depth 2 and an expand of its
\* root was answered with the root's children
C19_Witness ==
    /\ FallbackOnly
    /\ ExpandAnswered
    /\ sent.request.map_id \in DOMAIN mindmaps
    /\ sent.request.node_id = mindmaps[sent.request.map_id].root_id
    /\ sent.response.status = 200
    /\ \E x \in Range(mindmaps[sent.request.map_id].nodes) : x.depth = 2

----------------------------------------------------------------------------
(* The mindmap store and the todo store side by side *)

\* the client whose mindmap requests are served, and the client whose todo
\* requests are served, in the specification of both stores
MindmapClient == "c1"
TodoClient == "c2"
SiteTitle == "a"

\* the maps, expansions and todos started so far
SiteCreated == (nextMapId - 1) + Cardinality(Expanded) + (nextId - 1)

\* the expand request would insert children
SiteExpands(map_id, node_id) ==
    IF map_id \notin DOMAIN mindmaps THEN FALSE
    ELSE IF node_id \notin Ids(mindmaps[map_id].nodes) THEN FALSE
    ELSE IF ChildrenOf(mindmaps[map_id].nodes, node_id) # <<>> THEN FALSE
    ELSE <<map_id, node_id>> \notin Expanded

\* a step of a mindmap handler for MindmapClient, or the backend's answer
\* to its suspended call
SiteMindmapStep ==
    \/ \E prompt \in Prompts :
           SiteCreated < MaxSiteCreated /\ CreateMindmap(MindmapClient, prompt)
    \/ \E map_id \in MapIds : \E node_id \in NodeIds(map_id) :
           /\ Issued(map_id, node_id)
           /\ SiteExpands(map_id, node_id) => SiteCreated < MaxSiteCreated
           /\ ExpandNode(MindmapClient, map_id, node_id)
    \/ \E answer \in SpecAnswers : CreateResume(MindmapClient, answer)
    \/ \E answer \in SpecAnswers : ExpandResume(MindmapClient, answer)

\* a todo handler run from start to end for TodoClient; create requests
\* carry the title SiteTitle
SiteTodoStep ==
    \/ ListTodos(TodoClient)
    \/ \E done \in Flags :
           SiteCreated < MaxSiteCreated /\ CreateTodo(TodoClient, SiteTitle, done)
    \/ \E todo_id \in TodoIds : GetTodo(TodoClient, todo_id)
    \/ \E todo_id \in TodoIds, done \in Flags :
           UpdateTodo(TodoClient, todo_id, done)
    \/ \E todo_id \in TodoIds : DeleteTodo(TodoClient, todo_id)

NextSite == SiteMindmapStep \/ SiteTodoStep

\* both stores at import; no credential, or the backend is asked
InitSite ==
    /\ InitStores
    /\ env \in {EnvNoKey, EnvRemote}
    /\ genIn = NoCall
    /\ genOut = NoResp

\* both stores: todo requests are served between the steps of the mindmap
\* handlers, also while a mindmap handler is suspended
SpecSite == InitSite /\ [][NextSite]_vars

----------------------------------------------------------------------------
(* C20 *)

TodoOps ==
    {"list_todos", "create_todo", "get_todo", "update_todo", "delete_todo"}

\* C20: an expand that succeeds on map A leaves the set of stored maps, every
\* other map, A's map_id and root_id, the map-id counter and the todo store
\* as they were, keeps A's nodes other than the children it returns, and
\* every node it adds or writes has the target node as parent; a step of a
\* create leaves every stored map and the todo store as they were; every
\* step of a mindmap handler leaves the todo store and its counter as they
\* were; every todo request leaves the mindmap store and its counter as
\* they were.
C20_Isolation ==
    [][/\ (sent'.request.op = "expand" /\ sent'.response.status = 200) =>
            LET a == sent'.request.map_id
                n == sent'.request.node_id
            IN  /\ DOMAIN mindmaps' = DOMAIN mindmaps
                /\ \A m \in DOMAIN mindmaps \ {a} : mindmaps'[m] = mindmaps[m]
                /\ mindmaps'[a].map_id = mindmaps[a].map_id
                /\ mindmaps'[a].root_id = mindmaps[a].root_id
                /\ \A x \in Range(mindmaps[a].nodes) :
                      x.id \notin Ids(sent'.response.body) =>
                          x \in Range(mindmaps'[a].nodes)
                /\ \A x \in Range(mindmaps'[a].nodes) \ Range(mindmaps[a].nodes) :
                      x.parent_id = n
                /\ UNCHANGED <<nextMapId, todos, nextId>>
       /\ CreateStep =>
            /\ \A m \in DOMAIN mindmaps :
                  m \in DOMAIN mindmaps' /\ mindmaps'[m] = mindmaps[m]
            /\ UNCHANGED <<todos, nextId>>
       /\ IF sent'.request.op \in TodoOps
          THEN UNCHANGED <<mindmaps, nextMapId>>
          ELSE UNCHANGED <<todos, nextId>>
      ]_vars

\* an expand resumed by the backend inserted children into map 2 while map 1
\* and a todo are stored
C20_Witness ==
    /\ ExpandAnswered
    /\ sent.response.status = 200
    /\ sent.request.map_id = 2
    /\ {1, 2} \subseteq DOMAIN mindmaps
    /\ env = EnvRemote
    /\ \E g \in generated :
          /\ g.map_id = 2
          /\ g.node_id = sent.request.node_id
          /\ g.body = sent.response.body
    /\ DOMAIN todos # {}

====
